---------------------------- MODULE Spec2Model ----------------------------
(***************************************************************************)
(* Florida Hurricane Risk Lab (src/app.py): the vulnerability function,    *)
(* the loss calculator, the 300-year quick simulation behind the Risk      *)
(* Summary cards and the "Run Full Simulation" handler that builds the     *)
(* loss exceedance curve.                                                  *)
(*                                                                         *)
(* Units.  TLC has 32-bit integers and no reals, so quantities are exact   *)
(* rationals over fixed denominators:                                      *)
(*   - a damage ratio is an integer over VScale = 150 * 100 (wind over the *)
(*     150 mph threshold, multiplier in hundredths), so 0.75 is 11250;     *)
(*   - insured values are in thousands of dollars, a loss is               *)
(*     insured value (thousands) * damage ratio (over VScale);             *)
(*   - latitudes and longitudes are in hundredths of a degree;             *)
(*   - wind speeds are whole miles per hour;                               *)
(*   - hurricanes_per_year and climate_factor are in hundredths.           *)
(***************************************************************************)
EXTENDS Integers, Sequences, FiniteSets, TLC

VARIABLES
    pc,            \* position in the script / handler
    sim_years,     \* sidebar: "Simulation years"
    hpy,           \* sidebar: "Hurricanes per year" (hundredths)
    cf,            \* climate_factor (hundredths)
    losses,        \* quick_sim's result, the sample behind the Risk Summary
    stats,         \* what the Risk Summary cards show
    total_storms,  \* size of the pre-sampled storm pool
    winds,         \* pre-sampled pool: wind speeds
    lats,          \* pre-sampled pool: center latitudes
    lons,          \* pre-sampled pool: center longitudes
    yearly,        \* annual totals of the full simulation
    idx,           \* shared cursor into the pool
    y,             \* loop variable of "for y in range(sim_years)"
    n,             \* storm count drawn for the current year
    k,             \* iterations of "for _ in range(n)" completed
    loss,          \* the current year's running total
    curve,         \* the plotted exceedance curve: <<loss, probability>> pairs
    eal,           \* the plotted Expected Annual Loss
    counts,        \* history: the storm count drawn for each year so far
    starts,        \* history: the value of idx when each year began
    call,          \* a single call of a pure function: its arguments
    ret            \* ... and what it returned

vars == <<pc, sim_years, hpy, cf, losses, stats, total_storms, winds, lats,
          lons, yearly, idx, y, n, k, loss, curve, eal, counts, starts,
          call, ret>>

driverVars == <<sim_years, hpy, cf, losses, stats, total_storms, winds, lats,
                lons, yearly, idx, y, n, k, loss, curve, eal, counts, starts>>

---------------------------------------------------------------------------
(* Bounds of the model *)

\* sim_years is drawn from 1..MaxYears (the slider offers 5000..50000)
MaxYears == 3
\* a year's Poisson draw is taken from 0..MaxCount
MaxCount == 2
\* quick_sim's Poisson draw may also be TailCount, a year of many storms
TailCount == 8
\* quick_sim's range(300), scaled down
QuickYears == 2
\* portfolios handed to a single calculate_loss call have at most MaxProps rows
MaxProps == 2
\* wind speeds handed to a single vulnerability call:
\* -WindsBelowZero .. MaxWind
WindsBelowZero == 3
MaxWind == 155

---------------------------------------------------------------------------
(* Program constants *)

DamageThreshold == 150
KmPerDegree == 111
WindFloor == 74
\* 10e6 dollars, in thousands
LossThresholdK == 10000

VScale == DamageThreshold * 100
LossThreshold == LossThresholdK * VScale

None == "<None>"

NoCall == [fn |-> "none"]
NoRet == [err |-> "none"]

Min(a, b) == IF a <= b THEN a ELSE b
Max(a, b) == IF a >= b THEN a ELSE b

---------------------------------------------------------------------------
(* Portfolio: get_portfolio() *)

Property(city, value, ctype, lat, lon) ==
    [city |-> city, insured_value |-> value, construction_type |-> ctype,
     lat |-> lat, lon |-> lon]

df ==
    << Property("Miami",          500, "wood",     2576, -8019),
       Property("Tampa",          750, "brick",    2795, -8246),
       Property("Tallahassee",   1000, "concrete", 3044, -8428),
       Property("Orlando",        600, "wood",     2854, -8138),
       Property("Ft Lauderdale",  800, "brick",    2612, -8014),
       Property("Jacksonville",  1200, "concrete", 3033, -8166),
       Property("Key West",       450, "wood",     2456, -8178),
       Property("Pensacola",      900, "concrete", 3042, -8722) >>

---------------------------------------------------------------------------
(* Model: vulnerability *)

\* str.lower() on the class names the model draws
Lower(s) ==
    CASE s = "Wood"  -> "wood"
      [] s = "BRICK" -> "brick"
      [] OTHER       -> s

\* the dict {"wood":1.5, "brick":1.15, "concrete":0.75} and .get(key, 1.0),
\* in hundredths
MultGet(key) ==
    CASE key = "wood"     -> 150
      [] key = "brick"    -> 115
      [] key = "concrete" -> 75
      [] OTHER            -> 100

Ok(v) == [err |-> "none", val |-> v]
Raise(e) == [err |-> e, val |-> 0]

vulnerability_uncapped(wind_mph, construction) ==
    IF construction = None
    THEN Raise("AttributeError")
    ELSE LET base == Max(0, Min(DamageThreshold, wind_mph))
         IN  Ok(base * MultGet(Lower(construction)))

\* base = max(0.0, min(1.0, wind_mph / 150)), kept as its numerator over 150;
\* construction.lower() raises AttributeError when construction is None
vulnerability(wind_mph, construction) ==
    IF construction = None
    THEN Raise("AttributeError")
    ELSE LET base == Max(0, Min(DamageThreshold, wind_mph))
         IN  Ok(Min(VScale, base * MultGet(Lower(construction))))

\* models/loss_model.py: min(1.0, max(0.0, wind_speed / threshold))
vulnerability_function(wind_speed) ==
    Min(VScale, Max(0, wind_speed * 100))

---------------------------------------------------------------------------
(* Model: calculate_loss *)

InRadius_strict(row, wind, center) ==
    LET dlat == row.lat - center[1]
        dlon == row.lon - center[2]
    IN  /\ wind >= 0
        /\ dlat * dlat + dlon * dlon
             < (wind * wind * 100 * 100) \div (4 * KmPerDegree * KmPerDegree)

\* dist = sqrt(dlat^2 + dlon^2) * 111 <= radius_km = wind * 0.5, squared:
\* with coordinates in hundredths of a degree,
\*   4 * 111^2 * (dlat^2 + dlon^2) <= (100 * wind)^2   and   wind >= 0,
\* the product on the left replaced by a floor division on the right
InRadius(row, wind, center) ==
    LET dlat == row.lat - center[1]
        dlon == row.lon - center[2]
    IN  /\ wind >= 0
        /\ dlat * dlat + dlon * dlon
             <= (wind * wind * 100 * 100) \div (4 * KmPerDegree * KmPerDegree)

RECURSIVE LossRows(_, _, _, _, _, _)
LossRows(rows, wind, center, i, total, impacts) ==
    IF i > Len(rows)
    THEN [err |-> "none", total |-> total, impacts |-> impacts]
    ELSE LET row == rows[i] IN
         IF InRadius(row, wind, center)
         THEN LET dmg == vulnerability(wind, row.construction_type) IN
              IF dmg.err # "none"
              THEN [err |-> dmg.err, total |-> 0, impacts |-> <<>>]
              ELSE LossRows(rows, wind, center, i + 1,
                            total + row.insured_value * dmg.val,
                            Append(impacts, <<row.lat, row.lon, dmg.val>>))
         ELSE LossRows(rows, wind, center, i + 1, total,
                       Append(impacts, <<row.lat, row.lon, 0>>))

calculate_loss(rows, wind, center) == LossRows(rows, wind, center, 1, 0, <<>>)

RECURSIVE SumTo(_, _)
SumTo(f, len) == IF len = 0 THEN 0 ELSE f[len] + SumTo(f, len - 1)

---------------------------------------------------------------------------
(* Sampling: the values the random draws are taken from *)

\* poisson.rvs(...): a non-negative integer
CountDraws == 0 .. MaxCount

\* quick_sim's years may also draw one large count: eight storms that all
\* reach Miami are what it takes to put a year above the $10M threshold
QuickCountDraws == CountDraws \cup {TailCount}

\* one storm: wind = max(74, normal(...)), center uniform in
\* [24.3, 31.0] x [-87.8, -79.8].  A 150 mph storm centered on Miami (it
\* reaches Miami and Ft Lauderdale), and a 74 mph storm in the box's
\* north-east corner that reaches no property
StormDraws ==
    { [wind |-> 150, lat |-> 2576, lon |-> -8019],
      [wind |-> WindFloor, lat |-> 3100, lon |-> -7980] }

\* the sidebar's sliders
HpyChoices == {10, 56}
CfChoices == {100, 145}

\* calculate_loss(df, wind, center)[0] for each storm that can be drawn
StormLossOf == [s \in StormDraws |-> calculate_loss(df, s.wind, <<s.lat, s.lon>>).total]

StormLoss(s) == StormLossOf[s]

---------------------------------------------------------------------------
(* Summary statistics *)

NoMean == [sum |-> 0, n |-> 0]
NoStats == [mean |-> NoMean, p_exceed |-> [count |-> 0, n |-> 0]]

RECURSIVE SumSeq(_)
SumSeq(s) == IF s = <<>> THEN 0 ELSE Head(s) + SumSeq(Tail(s))

\* sample.mean(), np.mean(sample): the sum over the length
Mean(sample) == [sum |-> SumSeq(sample), n |-> Len(sample)]

RECURSIVE CountAbove(_, _)
CountAbove(sample, level) ==
    IF sample = <<>> THEN 0
    ELSE (IF Head(sample) > level THEN 1 ELSE 0)
         + CountAbove(Tail(sample), level)

\* (sample > 10e6).mean()
ExceedFraction(sample) ==
    [count |-> CountAbove(sample, LossThreshold), n |-> Len(sample)]

---------------------------------------------------------------------------
(* quick_sim and the Risk Summary *)

QuickSimRange_sim_years == sim_years

\* for _ in range(300)
QuickSimRange == QuickYears

\* one iteration of quick_sim's loop: draw n, then n storms, append the
\* year's total
QuickSimYear ==
    /\ pc = "quick_sim"
    /\ Len(losses) < QuickSimRange
    /\ \E c \in QuickCountDraws :
         \E d \in [1 .. c -> StormDraws] :
            LET each == [i \in 1 .. c |-> StormLoss(d[i])]
            IN  losses' = Append(losses, SumTo(each, c))
    /\ UNCHANGED <<pc, sim_years, hpy, cf, stats, total_storms, winds, lats,
                   lons, yearly, idx, y, n, k, loss, curve, eal, counts,
                   starts, call, ret>>

\* return np.array(losses), and the four metric cards
Dashboard ==
    /\ pc = "quick_sim"
    /\ Len(losses) >= QuickSimRange
    /\ stats' = [mean |-> Mean(losses), p_exceed |-> ExceedFraction(losses)]
    /\ pc' = "tab1"
    /\ UNCHANGED <<sim_years, hpy, cf, losses, total_storms, winds, lats,
                   lons, yearly, idx, y, n, k, loss, curve, eal, counts,
                   starts, call, ret>>

---------------------------------------------------------------------------
(* Run Full Simulation *)

\* int(sim_years * hurricanes_per_year * climate_factor * 1.5)
TotalStorms == (sim_years * hpy * cf * 15) \div 100000

\* the button is pressed: the pool is sampled, yearly = [], idx = 0
RunFullSimulation ==
    /\ pc = "tab1"
    /\ total_storms' = TotalStorms
    /\ \E pool \in [1 .. TotalStorms -> StormDraws] :
         /\ winds' = [i \in 1 .. TotalStorms |-> pool[i].wind]
         /\ lats' = [i \in 1 .. TotalStorms |-> pool[i].lat]
         /\ lons' = [i \in 1 .. TotalStorms |-> pool[i].lon]
    /\ yearly' = <<>>
    /\ idx' = 0
    /\ pc' = "for_year"
    /\ UNCHANGED <<sim_years, hpy, cf, losses, stats, y, n, k, loss, curve,
                   eal, counts, starts, call, ret>>

\* the button is not pressed: the script run ends
NoFullSimulation ==
    /\ pc = "tab1"
    /\ pc' = "idle"
    /\ UNCHANGED <<driverVars, call, ret>>

\* for y in range(sim_years): n = poisson.rvs(...); loss = 0
YearBegin ==
    /\ pc = "for_year"
    /\ y + 1 < sim_years
    /\ y' = y + 1
    /\ \E c \in CountDraws : n' = c /\ counts' = Append(counts, c)
    /\ starts' = Append(starts, idx)
    /\ loss' = 0
    /\ k' = 0
    /\ pc' = "for_storm"
    /\ UNCHANGED <<sim_years, hpy, cf, losses, stats, total_storms, winds,
                   lats, lons, yearly, idx, curve, eal, call, ret>>

\* winds[i], lats[i], lons[i] of the 0-based pool; numpy raises IndexError
\* for an index past the end
PoolHas(i) == i < Len(winds)
PoolAt(i) == [wind |-> winds[i + 1], lat |-> lats[i + 1], lon |-> lons[i + 1]]

\* the break taken one entry late: if idx > total_storms
PoolExhaustedAt_late(i) == i > total_storms

\* if idx >= total_storms: break
PoolExhaustedAt(i) == i >= total_storms

\* one iteration of "for _ in range(n)" that does not break
AccumulateStorm ==
    /\ pc = "for_storm"
    /\ k < n
    /\ ~PoolExhaustedAt(idx)
    /\ IF PoolHas(idx)
       THEN /\ loss' = loss + StormLoss(PoolAt(idx))
            /\ idx' = idx + 1
            /\ k' = k + 1
            /\ pc' = pc
       ELSE /\ pc' = "IndexError"
            /\ UNCHANGED <<loss, idx, k>>
    /\ UNCHANGED <<sim_years, hpy, cf, losses, stats, total_storms, winds,
                   lats, lons, yearly, y, n, curve, eal, counts, starts,
                   call, ret>>

\* a break that leaves the year's loop as well: the exhausted year's total
\* is not appended
StormLoopEnd_break_skips_append ==
    /\ pc = "for_storm"
    /\ \/ k >= n /\ pc' = "append"
       \/ k < n /\ idx >= total_storms /\ pc' = "for_year"
    /\ UNCHANGED <<driverVars, call, ret>>

\* the inner loop ends: range(n) is used up, or the break is taken
StormLoopEnd ==
    /\ pc = "for_storm"
    /\ \/ k >= n
       \/ k < n /\ PoolExhaustedAt(idx)
    /\ pc' = "append"
    /\ UNCHANGED <<driverVars, call, ret>>

\* yearly.append(loss), then the progress bar
YearEnd ==
    /\ pc = "append"
    /\ yearly' = Append(yearly, loss)
    /\ pc' = "for_year"
    /\ UNCHANGED <<sim_years, hpy, cf, losses, stats, total_storms, winds,
                   lats, lons, idx, y, n, k, loss, curve, eal, counts, starts,
                   call, ret>>

RECURSIVE InsertDesc(_, _)
InsertDesc(x, s) ==
    IF s = <<>> THEN <<x>>
    ELSE IF x >= Head(s) THEN <<x>> \o s
         ELSE <<Head(s)>> \o InsertDesc(x, Tail(s))

\* sorted(seq, reverse=True)
RECURSIVE SortedDesc(_)
SortedDesc(s) ==
    IF s = <<>> THEN <<>> ELSE InsertDesc(Head(s), SortedDesc(Tail(s)))

\* np.linspace(1, 0, num)[i - 1] as a fraction: 1 - (i - 1) / (num - 1), and
\* [1.] when num is 1
LinSpace10(num) ==
    [i \in 1 .. num |->
        IF num = 1 THEN [num |-> 1, den |-> 1]
        ELSE [num |-> num - i, den |-> num - 1]]

\* the loop is over: sorted_l, the red line ax.loglog(sorted_l, linspace)
\* and the dashed line at np.mean(yearly)
PlotCurve ==
    /\ pc = "for_year"
    /\ y + 1 >= sim_years
    /\ LET sorted_l == SortedDesc(yearly)
           prob == LinSpace10(Len(sorted_l))
       IN  curve' = [i \in 1 .. Len(sorted_l) |->
                        [loss |-> sorted_l[i], p |-> prob[i]]]
    /\ eal' = Mean(yearly)
    /\ pc' = "done"
    /\ UNCHANGED <<sim_years, hpy, cf, losses, stats, total_storms, winds,
                   lats, lons, yearly, idx, y, n, k, loss, counts, starts,
                   call, ret>>

---------------------------------------------------------------------------
(* Specifications *)

DriverStart ==
    /\ total_storms = 0 /\ winds = <<>> /\ lats = <<>> /\ lons = <<>>
    /\ yearly = <<>> /\ idx = 0 /\ y = -1 /\ n = 0 /\ k = 0 /\ loss = 0
    /\ curve = <<>> /\ eal = NoMean
    /\ counts = <<>> /\ starts = <<>>
    /\ call = NoCall /\ ret = NoRet

\* the handler of "Run Full Simulation", entered after a script run whose
\* quick simulation drew no storm at all
Init ==
    /\ pc = "tab1"
    /\ sim_years \in 1 .. MaxYears
    /\ hpy \in HpyChoices
    /\ cf \in CfChoices
    /\ losses = [i \in 1 .. QuickYears |-> 0]
    /\ stats = [mean |-> Mean(losses), p_exceed |-> ExceedFraction(losses)]
    /\ DriverStart

Next ==
    \/ RunFullSimulation
    \/ YearBegin
    \/ AccumulateStorm
    \/ StormLoopEnd
    \/ YearEnd
    \/ PlotCurve

Spec == Init /\ [][Next]_vars

\* the handler runs to its end: the script is one sequential thread
FairSpec == Spec /\ WF_vars(Next)

\* a whole script run: quick_sim, the Risk Summary, then the button
InitApp ==
    /\ pc = "quick_sim"
    /\ sim_years \in {1, 3}
    /\ hpy = 56
    /\ cf = 100
    /\ losses = <<>>
    /\ stats = NoStats
    /\ DriverStart

NextApp ==
    \/ QuickSimYear
    \/ Dashboard
    \/ NoFullSimulation
    \/ Next

SpecApp == InitApp /\ [][NextApp]_vars

---------------------------------------------------------------------------
(* Claims about the full simulation (under Spec and FairSpec) *)

\* years whose total has been appended to yearly
Recorded == 1 .. Len(yearly)

\* how many pool entries year yr read: the cursor's advance during the year
Consumed(yr) == (IF yr < Len(starts) THEN starts[yr + 1] ELSE idx) - starts[yr]

\* the losses of the cnt pool entries that follow cursor position start
PoolLossFrom(start, cnt) ==
    SumTo([j \in 1 .. cnt |-> StormLoss(PoolAt(start + j - 1))], cnt)

\* C1: every recorded annual total is the sum of calculate_loss over every
\* one of the storms drawn for that year (the count drawn for it), and is 0
\* when that count is 0: no drawn storm is left out.
C1_AnnualTotalSumsEveryDrawnStorm ==
    \A yr \in Recorded :
        /\ Consumed(yr) = counts[yr]
        /\ yearly[yr] = PoolLossFrom(starts[yr], Consumed(yr))
        /\ counts[yr] = 0 => yearly[yr] = 0

\* the permutations of 1 .. len, as sequences
Orders(len) ==
    {o \in [1 .. len -> 1 .. len] : \A a, b \in 1 .. len : o[a] = o[b] => a = b}

\* the totals the year loop gives when it takes the years in the given order,
\* each with the count drawn for it, over the same pool and portfolio
RECURSIVE TotalsInOrder(_, _, _, _)
TotalsInOrder(order, i, cursor, acc) ==
    IF i > Len(order) THEN acc
    ELSE LET yr == order[i]
             take == Min(counts[yr], Max(0, total_storms - cursor))
         IN  TotalsInOrder(order, i + 1, cursor + take,
                 [acc EXCEPT ![yr] = PoolLossFrom(cursor, take)])

\* C2: the curve pairs the N annual losses, sorted in descending order, with
\* rank / N: the largest loss with the smallest probability, the smallest
\* loss with probability 1, and the loss is non-increasing in probability.
C2_CurvePairsLossWithRankOverN ==
    pc = "done" =>
        /\ Len(curve) = sim_years
        /\ \A i \in 1 .. Len(curve) :
               /\ Cardinality({j \in Recorded : yearly[j] > curve[i].loss}) < i
               /\ Cardinality({j \in Recorded : yearly[j] >= curve[i].loss}) >= i
               /\ curve[i].p.num * sim_years = i * curve[i].p.den
        /\ \A i, j \in 1 .. Len(curve) :
               curve[i].p.num * curve[j].p.den <= curve[j].p.num * curve[i].p.den
                   => curve[i].loss >= curve[j].loss

\* C7: a year's recorded loss is unaffected by how many storms the other
\* years drew or consumed and by the order the years are processed in: taking
\* the years in any order leaves every year's loss as recorded.
C7_YearLossIndependentOfOrder ==
    pc = "done" =>
        \A order \in Orders(sim_years) :
            TotalsInOrder(order, 1, 0, [yr \in 1 .. sim_years |-> 0])
                = [yr \in 1 .. sim_years |-> yearly[yr]]

\* the year loop's totals in the order the handler takes the years are the
\* recorded ones
TotalsInOrderAgrees ==
    pc = "done" =>
        TotalsInOrder([yr \in 1 .. sim_years |-> yr], 1, 0,
                      [yr \in 1 .. sim_years |-> 0])
            = [yr \in 1 .. sim_years |-> yearly[yr]]

\* the recorded totals at a point of the handler: one per completed year,
\* each the sum of the losses of the pool entries its year read
RecordedSoFar ==
    /\ pc = "for_year" => Len(yearly) = y + 1
    /\ pc \in {"for_storm", "append"} => Len(yearly) = y
    /\ pc = "done" => Len(yearly) = sim_years
    /\ \A yr \in Recorded :
           yearly[yr] = PoolLossFrom(starts[yr], Consumed(yr))

\* C9: the handler terminates after processing years 1..N in order; at every
\* intermediate point the number of recorded totals is the number of
\* completed years, each entry is its year's total, and at the end there
\* are exactly N of them, also when the pool runs out.
C9_DriverTerminatesWithNTotals ==
    /\ <>(pc = "done")
    /\ [][RecordedSoFar']_vars
    /\ [][y' = y \/ (y' = y + 1 /\ y' < sim_years)]_vars

\* a run of MaxYears years that ended although the pool ran out in one of them
C9_Witness ==
    /\ pc = "done"
    /\ sim_years = MaxYears
    /\ Len(yearly) = MaxYears
    /\ \E yr \in Recorded : Consumed(yr) < counts[yr] /\ yearly[yr] > 0

\* C10: 0 <= idx <= total_storms always; idx never decreases and advances by
\* exactly one per storm whose loss is accumulated; the pool is only read at
\* an index below total_storms, also when total_storms is 0.
C10_PoolCursorInBounds ==
    /\ [](0 <= idx /\ idx <= total_storms /\ pc # "IndexError")
    /\ [][/\ idx' >= idx
          /\ (pc = "for_storm" /\ pc' = "for_storm" /\ k' = k + 1)
               => /\ idx < total_storms /\ idx < Len(winds)
                  /\ idx' = idx + 1
                  /\ loss' = loss + StormLoss(PoolAt(idx))
          /\ ~(pc = "for_storm" /\ pc' = "for_storm" /\ k' = k + 1)
               => /\ idx' = idx
                  /\ pc = "for_storm" => loss' = loss]_vars

\* the cursor at the end of a non-empty pool with a drawn storm still to take
C10_Witness ==
    /\ pc = "for_storm"
    /\ k < n
    /\ idx = total_storms
    /\ total_storms > 0

---------------------------------------------------------------------------
(* Claims about a whole script run (under SpecApp) *)

---------------------------------------------------------------------------
(* Single calls of the pure functions, on inputs drawn from bounded sets *)

\* construction classes: the three the table knows, two spelled in another
\* case, an unknown one, the empty string, and an absent one
Classes == {"wood", "brick", "concrete", "Wood", "BRICK", "steel", "", None}

VulnWinds == (0 - WindsBelowZero) .. MaxWind

VulnCalls ==
    [fn : {"vulnerability"}, wind : VulnWinds, construction : Classes]

VulnFnCalls ==
    [fn : {"vulnerability_function"}, wind : VulnWinds]

\* rows of the portfolios handed to calculate_loss: at the first center, on
\* the footprint's edge for wind 111 (0.5 degree = 55.5 km away), far away,
\* without a construction class, with a negative insured value, and with a
\* latitude that is not one
Rows ==
    { Property("a", 1000, "concrete", 2576, -8019),
      Property("b",  500, "wood",     2626, -8019),
      Property("c",  750, "steel",    3044, -8428),
      Property("d",  600, None,       2576, -8019),
      Property("e",  600, None,       3044, -8428),
      Property("f", -500, "brick",    2576, -8019),
      Property("g",  800, "Wood",     9500, -8019) }

RECURSIVE SeqsUpTo(_, _)
SeqsUpTo(S, len) ==
    IF len = 0 THEN {<<>>}
    ELSE LET shorter == SeqsUpTo(S, len - 1)
         IN  shorter \cup {Append(s, x) : s \in shorter, x \in S}

Portfolios == SeqsUpTo(Rows, MaxProps)

LossWinds == {-10, 0, WindFloor, 111, DamageThreshold, 200}

Centers == {<<2576, -8019>>, <<3100, -7980>>}

LossCalls ==
    [fn : {"calculate_loss"}, df : Portfolios, wind : LossWinds,
     center : Centers]

DriverIdle ==
    /\ sim_years = 0 /\ hpy = 0 /\ cf = 0
    /\ losses = <<>> /\ stats = NoStats
    /\ total_storms = 0 /\ winds = <<>> /\ lats = <<>> /\ lons = <<>>
    /\ yearly = <<>> /\ idx = 0 /\ y = -1 /\ n = 0 /\ k = 0 /\ loss = 0
    /\ curve = <<>> /\ eal = NoMean
    /\ counts = <<>> /\ starts = <<>>

InitFn ==
    /\ pc = "call"
    /\ call \in VulnCalls \cup VulnFnCalls \cup LossCalls
    /\ ret = NoRet
    /\ DriverIdle

CallVulnerability ==
    /\ pc = "call"
    /\ call.fn = "vulnerability"
    /\ ret' = vulnerability(call.wind, call.construction)
    /\ pc' = "returned"
    /\ UNCHANGED <<call, driverVars>>

CallVulnerabilityFunction ==
    /\ pc = "call"
    /\ call.fn = "vulnerability_function"
    /\ ret' = Ok(vulnerability_function(call.wind))
    /\ pc' = "returned"
    /\ UNCHANGED <<call, driverVars>>

CallCalculateLoss ==
    /\ pc = "call"
    /\ call.fn = "calculate_loss"
    /\ ret' = calculate_loss(call.df, call.wind, call.center)
    /\ pc' = "returned"
    /\ UNCHANGED <<call, driverVars>>

NextFn == CallVulnerability \/ CallVulnerabilityFunction \/ CallCalculateLoss

SpecFn == InitFn /\ [][NextFn]_vars

Returned(fn) == pc = "returned" /\ call.fn = fn

---------------------------------------------------------------------------
(* Claims about single calls (under SpecFn) *)

\* the claim's distance test: sqrt(dlat^2 + dlon^2) * 111 <= wind * 0.5, as
\* 12321 * d2 <= 2500 * wind^2 over hundredths of a degree
WithinFootprint(row, wind, center) ==
    LET d2 == (row.lat - center[1]) * (row.lat - center[1])
              + (row.lon - center[2]) * (row.lon - center[2])
    IN  wind >= 0 /\ d2 <= (2500 * wind * wind) \div 12321

\* clamp(wind / 150, 0, 1) times a multiplier in hundredths, capped at 1
ClampedRatio(wind, mult) ==
    LET base == IF wind < 0 THEN 0 ELSE IF wind > 150 THEN 150 ELSE wind
    IN  IF base * mult > VScale THEN VScale ELSE base * mult

HasClasses(rows) ==
    \A i \in 1 .. Len(rows) : rows[i].construction_type # None

ValidRow(row) ==
    /\ row.insured_value >= 0
    /\ -9000 <= row.lat /\ row.lat <= 9000
    /\ -18000 <= row.lon /\ row.lon <= 18000

ValidPortfolio(rows) == \A i \in 1 .. Len(rows) : ValidRow(rows[i])

\* C5: an invalid portfolio (negative insured value, out-of-range
\* coordinate) ends in an error outcome, never in a result computed from it.
C5_InvalidPortfolioRejected ==
    (Returned("calculate_loss") /\ ~ValidPortfolio(call.df)) =>
        ret.err # "none"

\* C6: wood, brick and concrete use 1.50, 1.15 and 0.75; every other class,
\* an absent one included, uses 1.0 and gets clamp(wind / 150, 0, 1) as a
\* normal result, never an error.
C6_UnknownClassDefaults ==
    Returned("vulnerability") =>
        LET c == call.construction
            mult == IF c \in {"wood", "Wood"} THEN 150
                    ELSE IF c \in {"brick", "BRICK"} THEN 115
                    ELSE IF c = "concrete" THEN 75
                    ELSE 100
        IN  /\ ret.err = "none"
            /\ ret.val = ClampedRatio(call.wind, mult)

===========================================================================
